---- MODULE Spec2Model ----
(***************************************************************************)
(* The interactive crop engine of image-sizer                              *)
(* (src/src/components/ImageCropper.tsx) as a state machine.               *)
(*                                                                         *)
(* JavaScript numbers are modelled as exact rationals <<n, d>> (d > 0, in  *)
(* lowest terms): every quantity the component computes from integer       *)
(* geometry, the ratio catalog and the factors 0.8 / 0.95 / 1.05 is a      *)
(* rational, and IEEE rounding noise (about 1e-13 px) is not modelled.     *)
(* One action models one event handler together with the React effects     *)
(* that run on the re-render it causes.                                    *)
(***************************************************************************)
EXTENDS Integers, Sequences, FiniteSets, TLC

(***************************************************************************)
(* Bounds of the model.                                                    *)
(***************************************************************************)
\* constraint, wheel, pointer-down and pointer-move events per crop session
\* (image load, pointer-up, preview, Apply and Cancel are not counted)
MaxSteps == 3

\* image loads, updates and resizes requested of App in one run
MaxRequests == 3

(***************************************************************************)
(* Numbers.                                                                *)
(***************************************************************************)
RECURSIVE GCD(_, _)
GCD(a, b) == IF b = 0 THEN a ELSE GCD(b, a % b)

Abs(n) == IF n < 0 THEN -n ELSE n

\* the number n / d, d # 0, in lowest terms with a positive denominator
Frac(n, d) ==
    LET g == GCD(Abs(n), Abs(d))
        s == IF d < 0 THEN -1 ELSE 1
    IN  <<(s * n) \div g, (s * d) \div g>>

R(n) == <<n, 1>>

\* a and b over their least common denominator: <<numerator of a, of b, denominator>>
Common(a, b) ==
    LET g == GCD(a[2], b[2])
    IN  <<a[1] * (b[2] \div g), b[1] * (a[2] \div g), a[2] * (b[2] \div g)>>

RAdd(a, b) == LET c == Common(a, b) IN Frac(c[1] + c[2], c[3])
RSub(a, b) == LET c == Common(a, b) IN Frac(c[1] - c[2], c[3])
RMul(a, b) ==
    LET g == GCD(Abs(a[1]), b[2])
        h == GCD(Abs(b[1]), a[2])
    IN  IF a[1] = 0 \/ b[1] = 0 THEN <<0, 1>>
        ELSE <<(a[1] \div g) * (b[1] \div h), (a[2] \div h) * (b[2] \div g)>>
\* a / b for b # 0
RDiv(a, b) == RMul(a, IF b[1] < 0 THEN <<-b[2], -b[1]>> ELSE <<b[2], b[1]>>)
RLt(a, b) == LET c == Common(a, b) IN c[1] < c[2]
RLe(a, b) == LET c == Common(a, b) IN c[1] <= c[2]
RGt(a, b) == RLt(b, a)
RHalf(a) == Frac(a[1], 2 * a[2])

\* Math.min, Math.max
MathMin(a, b) == IF RLe(a, b) THEN a ELSE b
MathMax(a, b) == IF RLe(b, a) THEN a ELSE b

\* Math.round: the integer nearest to a, ties towards +infinity
MathRound(a) == (2 * a[1] + a[2]) \div (2 * a[2])

(***************************************************************************)
(* Program constants.                                                      *)
(***************************************************************************)
\* ASPECT_RATIOS: 16:9, 4:3, 3:2, 1:1, 2:3, 3:4, 9:16, Custom
ASPECT_RATIOS ==
    << Frac(16, 9), Frac(4, 3), Frac(3, 2), R(1),
       Frac(2, 3), Frac(3, 4), Frac(9, 16), R(0) >>

\* the literal 50 of the resize clamps
MIN_SIZE == 50

\* the literal 0.8 of initializeCropBox
Fill == Frac(8, 10)

\* scaleFactor of the precise-resize wheel: 0.95 / 1.05
ShrinkFactor == Frac(95, 100)
GrowFactor == Frac(105, 100)

\* the value of currentRatio when the lock is off
Null == <<>>

Handles == {"n", "s", "e", "w", "ne", "nw", "se", "sw"}
NoHandle == "null"

\* resizeHandle.includes(c)
Includes(handle, c) ==
    \E i \in 1..Len(handle) : SubSeq(handle, i, i) = c

Box(x, y, w, h) == [x |-> x, y |-> y, width |-> w, height |-> h]

(***************************************************************************)
(* The effective constraint (lines 40-44).                                 *)
(***************************************************************************)
IsCustomRatio(idx) == idx = Len(ASPECT_RATIOS) - 1

CustomRatioValue(cw, ch) == Frac(cw, ch)

\* currentRatio with no ratio in pixel mode
CurrentRatioPixelsFree(lock, idx, mode, cw, ch, pw, ph) ==
    IF lock
    THEN IF IsCustomRatio(idx)
         THEN IF mode = "ratio" THEN CustomRatioValue(cw, ch) ELSE Null
         ELSE ASPECT_RATIOS[idx + 1]
    ELSE Null

CurrentRatio(lock, idx, mode, cw, ch, pw, ph) ==
    IF lock
    THEN IF IsCustomRatio(idx)
         THEN IF mode = "ratio" THEN CustomRatioValue(cw, ch) ELSE Frac(pw, ph)
         ELSE ASPECT_RATIOS[idx + 1]
    ELSE Null

\* `currentRatio ? a : b`: null, 0 and NaN are falsy
Truthy(ratio) == ratio # Null /\ ratio[1] # 0

\* the branch test of initializeCropBox and getCroppedImage
PixelMode(idx, mode) == IsCustomRatio(idx) /\ mode = "pixels"

(***************************************************************************)
(* initializeCropBox (lines 58-100) for a mounted image element of         *)
(* rendered size imgWidth x imgHeight and natural size naturalWidth x      *)
(* naturalHeight.                                                          *)
(***************************************************************************)
\* PixelBox downscaling every candidate above 80% of the display box
PixelBoxAboveFill(imgWidth, imgHeight, naturalWidth, naturalHeight, pw, ph) ==
    LET scaleX == RDiv(R(naturalWidth), imgWidth)
        scaleY == RDiv(R(naturalHeight), imgHeight)
        boxWidth == RDiv(R(pw), scaleX)
        boxHeight == RDiv(R(ph), scaleY)
    IN  IF RGt(boxWidth, RMul(imgWidth, Fill)) \/ RGt(boxHeight, RMul(imgHeight, Fill))
        THEN LET scale == RMul(MathMin(RDiv(imgWidth, boxWidth),
                                       RDiv(imgHeight, boxHeight)), Fill)
             IN  <<RMul(boxWidth, scale), RMul(boxHeight, scale)>>
        ELSE <<boxWidth, boxHeight>>

PixelBox(imgWidth, imgHeight, naturalWidth, naturalHeight, pw, ph) ==
    LET scaleX == RDiv(R(naturalWidth), imgWidth)
        scaleY == RDiv(R(naturalHeight), imgHeight)
        boxWidth == RDiv(R(pw), scaleX)
        boxHeight == RDiv(R(ph), scaleY)
    IN  IF RGt(boxWidth, imgWidth) \/ RGt(boxHeight, imgHeight)
        THEN LET scale == RMul(MathMin(RDiv(imgWidth, boxWidth),
                                       RDiv(imgHeight, boxHeight)), Fill)
             IN  <<RMul(boxWidth, scale), RMul(boxHeight, scale)>>
        ELSE <<boxWidth, boxHeight>>

\* RatioBox deriving the height as width * ratio
RatioBoxMultiplies(imgWidth, imgHeight, ratio) ==
    LET boxWidth == RMul(imgWidth, Fill)
        boxHeight == IF Truthy(ratio) THEN RMul(boxWidth, ratio)
                     ELSE RMul(imgHeight, Fill)
    IN  IF RGt(boxHeight, RMul(imgHeight, Fill))
        THEN LET h == RMul(imgHeight, Fill)
             IN  <<IF Truthy(ratio) THEN RMul(h, ratio) ELSE RMul(imgWidth, Fill), h>>
        ELSE <<boxWidth, boxHeight>>

\* RatioBox whose fallback keeps the width-first width
RatioBoxKeepsWidth(imgWidth, imgHeight, ratio) ==
    LET boxWidth == RMul(imgWidth, Fill)
        boxHeight == IF Truthy(ratio) THEN RDiv(boxWidth, ratio)
                     ELSE RMul(imgHeight, Fill)
    IN  IF RGt(boxHeight, RMul(imgHeight, Fill))
        THEN <<boxWidth, RMul(imgHeight, Fill)>>
        ELSE <<boxWidth, boxHeight>>

RatioBox(imgWidth, imgHeight, ratio) ==
    LET boxWidth == RMul(imgWidth, Fill)
        boxHeight == IF Truthy(ratio) THEN RDiv(boxWidth, ratio)
                     ELSE RMul(imgHeight, Fill)
    IN  IF RGt(boxHeight, RMul(imgHeight, Fill))
        THEN LET h == RMul(imgHeight, Fill)
             IN  <<IF Truthy(ratio) THEN RMul(h, ratio) ELSE RMul(imgWidth, Fill), h>>
        ELSE <<boxWidth, boxHeight>>

\* Centered without the division by 2
FlushRight(imgWidth, imgHeight, size) ==
    Box(RSub(imgWidth, size[1]), RSub(imgHeight, size[2]), size[1], size[2])

Centered(imgWidth, imgHeight, size) ==
    Box(RHalf(RSub(imgWidth, size[1])), RHalf(RSub(imgHeight, size[2])),
        size[1], size[2])

InitializeCropBox(imgWidth, imgHeight, naturalWidth, naturalHeight, idx, mode, ratio, pw, ph) ==
    Centered(imgWidth, imgHeight,
             IF PixelMode(idx, mode)
             THEN PixelBox(imgWidth, imgHeight, naturalWidth, naturalHeight, pw, ph)
             ELSE RatioBox(imgWidth, imgHeight, ratio))

(***************************************************************************)
(* handleMouseMove (lines 178-253).  cropBox is the rectangle of the last  *)
(* render, (mouseX, mouseY) the pointer relative to the container.         *)
(***************************************************************************)
Clamp(v, lo, hi) == MathMax(lo, MathMin(v, hi))

\* the dragged origin taken as it is, without Math.max / Math.min
TranslateUnclamped(cropBox, dragStart, mouseX, mouseY, imgWidth, imgHeight) ==
    [cropBox EXCEPT !.x = RSub(mouseX, dragStart.x), !.y = RSub(mouseY, dragStart.y)]

\* lines 184-191
Translate(cropBox, dragStart, mouseX, mouseY, imgWidth, imgHeight) ==
    LET newX == RSub(mouseX, dragStart.x)
        newY == RSub(mouseY, dragStart.y)
    IN  [cropBox EXCEPT
            !.x = Clamp(newX, R(0), RSub(imgWidth, cropBox.width)),
            !.y = Clamp(newY, R(0), RSub(imgHeight, cropBox.height))]

\* the e handle without the minimum of 50
ResizeENoMinimum(new, cropBox, mouseX, imgWidth, ratio) ==
    LET newWidth == MathMin(RSub(mouseX, cropBox.x), RSub(imgWidth, cropBox.x))
    IN  [new EXCEPT !.width = newWidth,
                    !.height = IF Truthy(ratio) THEN RDiv(newWidth, ratio) ELSE @]

\* lines 201-206
ResizeE(new, cropBox, mouseX, imgWidth, ratio) ==
    LET newWidth == MathMax(R(MIN_SIZE),
                            MathMin(RSub(mouseX, cropBox.x), RSub(imgWidth, cropBox.x)))
    IN  [new EXCEPT !.width = newWidth,
                    !.height = IF Truthy(ratio) THEN RDiv(newWidth, ratio) ELSE @]

\* lines 207-215
ResizeW(new, cropBox, mouseX, ratio) ==
    LET maxX == RSub(RAdd(cropBox.x, cropBox.width), R(MIN_SIZE))
        newX == MathMax(R(0), MathMin(mouseX, maxX))
        newWidth == RSub(RAdd(cropBox.x, cropBox.width), newX)
        newHeight == RDiv(newWidth, ratio)
    IN  IF Truthy(ratio)
        THEN [x |-> newX, width |-> newWidth, height |-> newHeight,
              y |-> RAdd(cropBox.y, RHalf(RSub(cropBox.height, newHeight)))]
        ELSE [new EXCEPT !.x = newX, !.width = newWidth]

\* lines 216-221
ResizeS(new, cropBox, mouseY, imgHeight, ratio) ==
    LET newHeight == MathMax(R(MIN_SIZE),
                             MathMin(RSub(mouseY, cropBox.y), RSub(imgHeight, cropBox.y)))
    IN  [new EXCEPT !.height = newHeight,
                    !.width = IF Truthy(ratio) THEN RMul(newHeight, ratio) ELSE @]

\* lines 222-230
ResizeN(new, cropBox, mouseY, ratio) ==
    LET maxY == RSub(RAdd(cropBox.y, cropBox.height), R(MIN_SIZE))
        newY == MathMax(R(0), MathMin(mouseY, maxY))
        newHeight == RSub(RAdd(cropBox.y, cropBox.height), newY)
        newWidth == RMul(newHeight, ratio)
    IN  IF Truthy(ratio)
        THEN [y |-> newY, height |-> newHeight, width |-> newWidth,
              x |-> RAdd(cropBox.x, RHalf(RSub(cropBox.width, newWidth)))]
        ELSE [new EXCEPT !.y = newY, !.height = newHeight]

\* FitRight with the height left as it was when the width is cut
FitRightKeepsHeight(new, imgWidth, ratio) ==
    IF RGt(RAdd(new.x, new.width), imgWidth)
    THEN [new EXCEPT !.width = RSub(imgWidth, new.x)]
    ELSE new

\* lines 233-238
FitRight(new, imgWidth, ratio) ==
    IF RGt(RAdd(new.x, new.width), imgWidth)
    THEN LET newWidth == RSub(imgWidth, new.x)
         IN  [new EXCEPT !.width = newWidth,
                         !.height = IF Truthy(ratio) THEN RDiv(newWidth, ratio) ELSE @]
    ELSE new

\* no correction at the bottom edge
FitBottomSkipped(new, imgHeight, ratio) == new

\* lines 239-244
FitBottom(new, imgHeight, ratio) ==
    IF RGt(RAdd(new.y, new.height), imgHeight)
    THEN LET newHeight == RSub(imgHeight, new.y)
         IN  [new EXCEPT !.height = newHeight,
                         !.width = IF Truthy(ratio) THEN RMul(newHeight, ratio) ELSE @]
    ELSE new

\* lines 192-252
Resize(cropBox, handle, mouseX, mouseY, imgWidth, imgHeight, ratio) ==
    LET a == IF Includes(handle, "e")
             THEN ResizeE(cropBox, cropBox, mouseX, imgWidth, ratio) ELSE cropBox
        b == IF Includes(handle, "w") THEN ResizeW(a, cropBox, mouseX, ratio) ELSE a
        c == IF Includes(handle, "s")
             THEN ResizeS(b, cropBox, mouseY, imgHeight, ratio) ELSE b
        d == IF Includes(handle, "n") THEN ResizeN(c, cropBox, mouseY, ratio) ELSE c
    IN  FitBottom(FitRight(d, imgWidth, ratio), imgHeight, ratio)

(***************************************************************************)
(* handleWheel with shiftKey (lines 111-141).                              *)
(***************************************************************************)
\* the width clamp without the height derived again from the ratio
PreciseResizeKeepsHeight(cropBox, scaleFactor, imgWidth, imgHeight, ratio) ==
    LET w0 == RMul(cropBox.width, scaleFactor)
        h0 == IF Truthy(ratio) THEN RDiv(w0, ratio)
              ELSE RMul(cropBox.height, scaleFactor)
        wide == RGt(w0, imgWidth)
        w1 == IF wide THEN imgWidth ELSE w0
        tall == RGt(h0, imgHeight)
        newHeight == IF tall THEN imgHeight ELSE h0
        newWidth == IF tall /\ Truthy(ratio) THEN RMul(newHeight, ratio) ELSE w1
        x == RAdd(cropBox.x, RHalf(RSub(cropBox.width, newWidth)))
        y == RAdd(cropBox.y, RHalf(RSub(cropBox.height, newHeight)))
    IN  Box(MathMax(R(0), MathMin(x, RSub(imgWidth, newWidth))),
            MathMax(R(0), MathMin(y, RSub(imgHeight, newHeight))),
            newWidth, newHeight)

\* the scaled box kept at its top-left corner instead of its center
PreciseResizeFromCorner(cropBox, scaleFactor, imgWidth, imgHeight, ratio) ==
    LET w0 == RMul(cropBox.width, scaleFactor)
        h0 == IF Truthy(ratio) THEN RDiv(w0, ratio)
              ELSE RMul(cropBox.height, scaleFactor)
        wide == RGt(w0, imgWidth)
        w1 == IF wide THEN imgWidth ELSE w0
        h1 == IF wide /\ Truthy(ratio) THEN RDiv(w1, ratio) ELSE h0
        tall == RGt(h1, imgHeight)
        newHeight == IF tall THEN imgHeight ELSE h1
        newWidth == IF tall /\ Truthy(ratio) THEN RMul(newHeight, ratio) ELSE w1
    IN  Box(MathMax(R(0), MathMin(cropBox.x, RSub(imgWidth, newWidth))),
            MathMax(R(0), MathMin(cropBox.y, RSub(imgHeight, newHeight))),
            newWidth, newHeight)

PreciseResize(cropBox, scaleFactor, imgWidth, imgHeight, ratio) ==
    LET w0 == RMul(cropBox.width, scaleFactor)
        h0 == IF Truthy(ratio) THEN RDiv(w0, ratio)
              ELSE RMul(cropBox.height, scaleFactor)
        wide == RGt(w0, imgWidth)
        w1 == IF wide THEN imgWidth ELSE w0
        h1 == IF wide /\ Truthy(ratio) THEN RDiv(w1, ratio) ELSE h0
        tall == RGt(h1, imgHeight)
        newHeight == IF tall THEN imgHeight ELSE h1
        newWidth == IF tall /\ Truthy(ratio) THEN RMul(newHeight, ratio) ELSE w1
        x == RAdd(cropBox.x, RHalf(RSub(cropBox.width, newWidth)))
        y == RAdd(cropBox.y, RHalf(RSub(cropBox.height, newHeight)))
    IN  Box(MathMax(R(0), MathMin(x, RSub(imgWidth, newWidth))),
            MathMax(R(0), MathMin(y, RSub(imgHeight, newHeight))),
            newWidth, newHeight)

\* the updater stopping at the first ratio instead of wrapping to the last
CycleIndexClamped(prev, deltaYPositive) ==
    IF deltaYPositive
    THEN IF prev = Len(ASPECT_RATIOS) - 1 THEN 0 ELSE prev + 1
    ELSE IF prev = 0 THEN 0 ELSE prev - 1

\* lines 143-149
CycleIndex(prev, deltaYPositive) ==
    IF deltaYPositive
    THEN IF prev = Len(ASPECT_RATIOS) - 1 THEN 0 ELSE prev + 1
    ELSE IF prev = 0 THEN Len(ASPECT_RATIOS) - 1 ELSE prev - 1

(***************************************************************************)
(* getCroppedImage (lines 260-307).  The result is the canvas: its size    *)
(* and the source rectangle handed to drawImage; NoCanvas is null.         *)
(* Before the image has loaded the element measures 0 x 0 with natural     *)
(* size 0, the scale is 0/0 = NaN, every rounded product is NaN and a      *)
(* canvas dimension set to NaN becomes 0.                                  *)
(***************************************************************************)
NoCanvas == [ok |-> FALSE]

\* getCroppedImage sizing the canvas from the rectangle in every mode
GetCroppedImageUnscaled(ctxOk, mounted, cropBox, imgWidth, imgHeight, naturalWidth, naturalHeight, idx, mode, pw, ph) ==
    IF ~ctxOk \/ ~mounted
    THEN [ok |-> FALSE]
    ELSE LET nan == imgWidth[1] = 0 \/ imgHeight[1] = 0
             scaleX == RDiv(R(naturalWidth), imgWidth)
             scaleY == RDiv(R(naturalHeight), imgHeight)
             sourceX == IF nan THEN 0 ELSE MathRound(RMul(cropBox.x, scaleX))
             sourceY == IF nan THEN 0 ELSE MathRound(RMul(cropBox.y, scaleY))
             sourceWidth == IF nan THEN 0 ELSE MathRound(RMul(cropBox.width, scaleX))
             sourceHeight == IF nan THEN 0 ELSE MathRound(RMul(cropBox.height, scaleY))
         IN  [ok |-> TRUE, nan |-> nan,
              canvasWidth |-> sourceWidth, canvasHeight |-> sourceHeight,
              sourceX |-> sourceX, sourceY |-> sourceY,
              sourceWidth |-> sourceWidth, sourceHeight |-> sourceHeight]

\* getCroppedImage truncating (Math.floor) where the code rounds
GetCroppedImageTruncates(ctxOk, mounted, cropBox, imgWidth, imgHeight, naturalWidth, naturalHeight, idx, mode, pw, ph) ==
    IF ~ctxOk \/ ~mounted
    THEN [ok |-> FALSE]
    ELSE LET nan == imgWidth[1] = 0 \/ imgHeight[1] = 0
             scaleX == RDiv(R(naturalWidth), imgWidth)
             scaleY == RDiv(R(naturalHeight), imgHeight)
             Floor(a) == a[1] \div a[2]
             sourceX == IF nan THEN 0 ELSE Floor(RMul(cropBox.x, scaleX))
             sourceY == IF nan THEN 0 ELSE Floor(RMul(cropBox.y, scaleY))
             sourceWidth == IF nan THEN 0 ELSE Floor(RMul(cropBox.width, scaleX))
             sourceHeight == IF nan THEN 0 ELSE Floor(RMul(cropBox.height, scaleY))
         IN  [ok |-> TRUE, nan |-> nan,
              canvasWidth |-> IF PixelMode(idx, mode) THEN pw ELSE sourceWidth,
              canvasHeight |-> IF PixelMode(idx, mode) THEN ph ELSE sourceHeight,
              sourceX |-> sourceX, sourceY |-> sourceY,
              sourceWidth |-> sourceWidth, sourceHeight |-> sourceHeight]

GetCroppedImage(ctxOk, mounted, cropBox, imgWidth, imgHeight, naturalWidth, naturalHeight, idx, mode, pw, ph) ==
    IF ~ctxOk \/ ~mounted
    THEN NoCanvas
    ELSE LET nan == imgWidth[1] = 0 \/ imgHeight[1] = 0
             scaleX == RDiv(R(naturalWidth), imgWidth)
             scaleY == RDiv(R(naturalHeight), imgHeight)
             sourceX == IF nan THEN 0 ELSE MathRound(RMul(cropBox.x, scaleX))
             sourceY == IF nan THEN 0 ELSE MathRound(RMul(cropBox.y, scaleY))
             sourceWidth == IF nan THEN 0 ELSE MathRound(RMul(cropBox.width, scaleX))
             sourceHeight == IF nan THEN 0 ELSE MathRound(RMul(cropBox.height, scaleY))
         IN  [ok |-> TRUE, nan |-> nan,
              canvasWidth |-> IF PixelMode(idx, mode) THEN pw ELSE sourceWidth,
              canvasHeight |-> IF PixelMode(idx, mode) THEN ph ELSE sourceHeight,
              sourceX |-> sourceX, sourceY |-> sourceY,
              sourceWidth |-> sourceWidth, sourceHeight |-> sourceHeight]

\* the onChange handlers without Math.max(1, ...)
ParseFieldNoFloor(isNaN, n) == IF isNaN \/ n = 0 THEN 1 ELSE n

\* the onChange handlers of the number inputs (lines 443, 459, 471, 487):
\* Math.max(1, parseInt(value) || 1), parseInt giving NaN or the integer n
ParseField(isNaN, n) ==
    LET parsed == IF isNaN \/ n = 0 THEN 1 ELSE n
    IN  IF parsed < 1 THEN 1 ELSE parsed

(***************************************************************************)
(* Inputs of the model.                                                    *)
(***************************************************************************)
\* rendered (display) size w x h and natural size nw x nh of the image
Geometries ==
    { [w |-> 1000, h |-> 1000, nw |-> 2000, nh |-> 2000],
      [w |-> 1000, h |-> 300, nw |-> 2000, nh |-> 600] }

\* pointer positions along one side of the container: both ends and the middle
GridPoints(size) == { R(0), Frac(size, 2), R(size) }

\* parseInt results typed into the ratio and the pixel fields
RatioInputs == {-2, 0, 3, 4}
PixelInputs == {-5, 0, 800, 3000}

(***************************************************************************)
(* State.                                                                  *)
(***************************************************************************)
VARIABLES
    geom,               \* the image: display and natural size (fixed)
    imageLoaded, cropBox, isDragging, dragStart, resizeHandle,
    currentRatioIndex, lockAspectRatio,
    customWidth, customHeight, customMode, pixelWidth, pixelHeight,
    showPreview, previewUrl,
    committed,          \* the canvases handed to onImageUpdate, in order
    closed,             \* onClose was called
    steps,              \* events counted against MaxSteps
    lastOp,             \* the last event handled, and whether the
                        \* re-initialization effect set the rectangle
    imageInfo,          \* App: the image shown, or NoImage (null)
    pending,            \* App: the asynchronous image loads, updates and
                        \* resizes that have not completed
    issued,             \* the requests made, in order
    applied,            \* the requests whose setImageInfo has run, in order
    generation          \* how often a file load or Clear replaced the image

pointerVars == <<isDragging, dragStart, resizeHandle>>
constraintVars == <<currentRatioIndex, lockAspectRatio, customWidth, customHeight, customMode, pixelWidth, pixelHeight>>
previewVars == <<showPreview, previewUrl>>
sessionVars == <<committed, closed>>

appVars == <<imageInfo, pending, issued, applied, generation>>
cropperVars == <<geom, imageLoaded, cropBox, pointerVars, constraintVars, previewVars, sessionVars, steps, lastOp>>

vars == <<cropperVars, appVars>>

\* useState<ImageInfo | null>(null)
NoImage == [loaded |-> FALSE]

\* the ImageInfo of the file named file (lines 28-37)
FileInfo(file) == [loaded |-> TRUE, url |-> <<"file", file>>, originalUrl |-> <<"file", file>>, name |-> file]

\* App while one crop session runs on its image: nothing in flight
CropSessionApp ==
    /\ imageInfo = FileInfo("a")
    /\ pending = {}
    /\ issued = <<>>
    /\ applied = <<>>
    /\ generation = 1

\* imageRef.current: the <img ref={imageRef}> is rendered unless the preview is
Mounted == ~showPreview

\* img.getBoundingClientRect() and img.naturalWidth / naturalHeight
imgWidth == IF imageLoaded THEN R(geom.w) ELSE R(0)
imgHeight == IF imageLoaded THEN R(geom.h) ELSE R(0)
naturalWidth == IF imageLoaded THEN geom.nw ELSE 0
naturalHeight == IF imageLoaded THEN geom.nh ELSE 0

isCustomRatio == IsCustomRatio(currentRatioIndex)
currentRatio == CurrentRatio(lockAspectRatio, currentRatioIndex, customMode, customWidth, customHeight, pixelWidth, pixelHeight)

\* the state the re-initialization effect reads, as one value
Rendered == [loaded |-> imageLoaded, mounted |-> Mounted, idx |-> currentRatioIndex, lock |-> lockAspectRatio, mode |-> customMode, cw |-> customWidth, ch |-> customHeight, pw |-> pixelWidth, ph |-> pixelHeight]

RatioOf(r) == CurrentRatio(r.lock, r.idx, r.mode, r.cw, r.ch, r.pw, r.ph)

\* the dependency list of the re-initialization effect (line 106)
Deps(r) == <<r.loaded, RatioOf(r), r.lock, r.cw, r.ch, r.mode, r.pw, r.ph>>

\* initializeCropBox on the render r of a loaded image g
FreshBox(r, g) == InitializeCropBox(R(g.w), R(g.h), g.nw, g.nh, r.idx, r.mode, RatioOf(r), r.pw, r.ph)

\* the effect of lines 102-106 runs after the render new that follows the
\* render old, and sets the rectangle unless imageRef.current is null
ReInitRuns(old, new) == new.loaded /\ Deps(new) # Deps(old) /\ new.mounted

\* a handler named name that leaves the rectangle alone, then the effect
ReInit(name) ==
    \E new \in {Rendered'} :
        /\ cropBox' = IF ReInitRuns(Rendered, new) THEN FreshBox(new, geom) ELSE cropBox
        /\ lastOp' = [op |-> name, init |-> ReInitRuns(Rendered, new)]

\* one more counted event, within the bound of the model
Step == steps < MaxSteps /\ steps' = steps + 1

Init ==
    /\ geom \in Geometries
    /\ imageLoaded = FALSE
    /\ cropBox = Box(R(0), R(0), R(0), R(0))
    /\ isDragging = FALSE
    /\ dragStart = [x |-> R(0), y |-> R(0)]
    /\ currentRatioIndex = 0
    /\ showPreview = FALSE
    /\ previewUrl = NoCanvas
    /\ lockAspectRatio = TRUE
    /\ resizeHandle = NoHandle
    /\ customWidth = 16
    /\ customHeight = 9
    /\ customMode = "ratio"
    /\ pixelWidth = 1920
    /\ pixelHeight = 1080
    /\ committed = <<>>
    /\ closed = FALSE
    /\ steps = 0
    /\ lastOp = [op |-> "mount", init |-> FALSE]
    /\ CropSessionApp

(***************************************************************************)
(* Events.  Every handler runs on the state of the last render; the        *)
(* controls exist only while the component renders them.                   *)
(***************************************************************************)
\* <img onLoad> (line 524), then the effect of lines 102-106
ImageLoad ==
    /\ ~closed /\ ~imageLoaded /\ Mounted
    /\ imageLoaded' = TRUE
    /\ UNCHANGED <<appVars, geom, pointerVars, constraintVars, previewVars, sessionVars, steps>>
    /\ ReInit("load")

\* the lock button (line 334)
ToggleLock ==
    /\ ~closed /\ Step
    /\ lockAspectRatio' = ~lockAspectRatio
    /\ UNCHANGED <<currentRatioIndex, customWidth, customHeight, customMode, pixelWidth, pixelHeight>>
    /\ UNCHANGED <<appVars, geom, imageLoaded, pointerVars, previewVars, sessionVars>>
    /\ ReInit("lock")

\* a ratio button (lines 396-399)
SelectRatio ==
    /\ ~closed /\ Step /\ lockAspectRatio
    /\ \E index \in 0..(Len(ASPECT_RATIOS) - 1) : currentRatioIndex' = index
    /\ UNCHANGED <<lockAspectRatio, customWidth, customHeight, customMode, pixelWidth, pixelHeight>>
    /\ UNCHANGED <<appVars, geom, imageLoaded, pointerVars, previewVars, sessionVars>>
    /\ ReInit("select")

\* the Ratio / Pixels buttons (lines 414-433)
SetCustomMode ==
    /\ ~closed /\ Step /\ lockAspectRatio /\ isCustomRatio
    /\ \E m \in {"ratio", "pixels"} : customMode' = m
    /\ UNCHANGED <<currentRatioIndex, lockAspectRatio, customWidth, customHeight, pixelWidth, pixelHeight>>
    /\ UNCHANGED <<appVars, geom, imageLoaded, pointerVars, previewVars, sessionVars>>
    /\ ReInit("mode")

\* the custom ratio inputs and their swap button (lines 46-50, 436-463)
EditRatio ==
    /\ ~closed /\ Step /\ lockAspectRatio /\ isCustomRatio /\ customMode = "ratio"
    /\ \E field \in {"width", "height", "swap"}, isNaN \in BOOLEAN, n \in RatioInputs :
          /\ customWidth' = CASE field = "width" -> ParseField(isNaN, n)
                              [] field = "swap" -> customHeight
                              [] OTHER -> customWidth
          /\ customHeight' = CASE field = "height" -> ParseField(isNaN, n)
                               [] field = "swap" -> customWidth
                               [] OTHER -> customHeight
    /\ UNCHANGED <<currentRatioIndex, lockAspectRatio, customMode, pixelWidth, pixelHeight>>
    /\ UNCHANGED <<appVars, geom, imageLoaded, pointerVars, previewVars, sessionVars>>
    /\ ReInit("ratioInput")

\* the pixel inputs and their swap button (lines 52-56, 464-491)
EditPixels ==
    /\ ~closed /\ Step /\ lockAspectRatio /\ isCustomRatio /\ customMode = "pixels"
    /\ \E field \in {"width", "height", "swap"}, isNaN \in BOOLEAN, n \in PixelInputs :
          /\ pixelWidth' = CASE field = "width" -> ParseField(isNaN, n)
                             [] field = "swap" -> pixelHeight
                             [] OTHER -> pixelWidth
          /\ pixelHeight' = CASE field = "height" -> ParseField(isNaN, n)
                              [] field = "swap" -> pixelWidth
                              [] OTHER -> pixelHeight
    /\ UNCHANGED <<currentRatioIndex, lockAspectRatio, customMode, customWidth, customHeight>>
    /\ UNCHANGED <<appVars, geom, imageLoaded, pointerVars, previewVars, sessionVars>>
    /\ ReInit("pixelInput")

\* handleWheel cycling the ratio whether or not the lock is on
WheelIgnoresLock ==
    /\ ~closed /\ Step
    /\ UNCHANGED <<lockAspectRatio, customWidth, customHeight, customMode, pixelWidth, pixelHeight>>
    /\ UNCHANGED <<appVars, geom, imageLoaded, pointerVars, previewVars, sessionVars>>
    /\ \E shiftKey \in BOOLEAN, deltaYPositive \in BOOLEAN :
          IF shiftKey
          THEN /\ cropBox' = IF Mounted
                             THEN PreciseResize(cropBox, IF deltaYPositive THEN ShrinkFactor ELSE GrowFactor, imgWidth, imgHeight, currentRatio)
                             ELSE cropBox
               /\ UNCHANGED currentRatioIndex
               /\ lastOp' = [op |-> "preciseResize", init |-> FALSE]
          ELSE /\ currentRatioIndex' = CycleIndex(currentRatioIndex, deltaYPositive)
               /\ ReInit("cycle")

\* handleWheel (lines 108-151) on the event e with e.shiftKey = shiftKey and
\* e.deltaY > 0 = deltaYPositive and, for the ratio cycle, the effect of 102-106
WheelAt(shiftKey, deltaYPositive) ==
    /\ ~closed /\ Step
    /\ UNCHANGED <<lockAspectRatio, customWidth, customHeight, customMode, pixelWidth, pixelHeight>>
    /\ UNCHANGED <<appVars, geom, imageLoaded, pointerVars, previewVars, sessionVars>>
    /\ IF shiftKey
       THEN /\ cropBox' = IF Mounted
                          THEN PreciseResize(cropBox, IF deltaYPositive THEN ShrinkFactor ELSE GrowFactor, imgWidth, imgHeight, currentRatio)
                          ELSE cropBox
            /\ UNCHANGED currentRatioIndex
            /\ lastOp' = [op |-> "preciseResize", init |-> FALSE]
       ELSE /\ currentRatioIndex' = IF lockAspectRatio
                                    THEN CycleIndex(currentRatioIndex, deltaYPositive)
                                    ELSE currentRatioIndex
            /\ ReInit("cycle")

Wheel ==
    \E shiftKey \in BOOLEAN, deltaYPositive \in BOOLEAN : WheelAt(shiftKey, deltaYPositive)

\* handleMouseDown (lines 161-176) on the crop box or on one of its handles
MouseDownAt(target, mouseX, mouseY) ==
    /\ ~closed /\ Step /\ imageLoaded /\ Mounted
    /\ IF target # NoHandle
       THEN /\ resizeHandle' = target
            /\ UNCHANGED <<isDragging, dragStart>>
       ELSE \* the pointer is over the body of the box
            /\ RLe(cropBox.x, mouseX) /\ RLe(mouseX, RAdd(cropBox.x, cropBox.width))
            /\ RLe(cropBox.y, mouseY) /\ RLe(mouseY, RAdd(cropBox.y, cropBox.height))
            /\ isDragging' = TRUE
            /\ dragStart' = [x |-> RSub(mouseX, cropBox.x), y |-> RSub(mouseY, cropBox.y)]
            /\ UNCHANGED resizeHandle
    /\ UNCHANGED <<appVars, geom, imageLoaded, cropBox, constraintVars, previewVars, sessionVars>>
    /\ lastOp' = [op |-> "down", init |-> FALSE]

MouseDown ==
    \E target \in Handles \cup {NoHandle}, mouseX \in GridPoints(geom.w), mouseY \in GridPoints(geom.h) :
        MouseDownAt(target, mouseX, mouseY)

\* handleMouseMove (lines 178-253)
MouseMoveAt(mouseX, mouseY) ==
    /\ ~closed /\ Step
    /\ IF ~Mounted \/ (~isDragging /\ resizeHandle = NoHandle)
       THEN /\ UNCHANGED cropBox
            /\ lastOp' = [op |-> "move", init |-> FALSE]
       ELSE /\ IF isDragging
               THEN /\ cropBox' = Translate(cropBox, dragStart, mouseX, mouseY, imgWidth, imgHeight)
                    /\ lastOp' = [op |-> "translate", init |-> FALSE]
               ELSE /\ cropBox' = Resize(cropBox, resizeHandle, mouseX, mouseY, imgWidth, imgHeight, currentRatio)
                    /\ lastOp' = [op |-> "resize", init |-> FALSE]
    /\ UNCHANGED <<appVars, geom, imageLoaded, pointerVars, constraintVars, previewVars, sessionVars>>

MouseMove ==
    \E mouseX \in GridPoints(geom.w), mouseY \in GridPoints(geom.h) : MouseMoveAt(mouseX, mouseY)

\* handleMouseUp without setResizeHandle(null)
MouseUpKeepsHandle ==
    /\ ~closed
    /\ isDragging' = FALSE
    /\ UNCHANGED <<appVars, geom, imageLoaded, cropBox, dragStart, resizeHandle, constraintVars, previewVars, sessionVars, steps>>
    /\ lastOp' = [op |-> "up", init |-> FALSE]

\* handleMouseUp (lines 255-258), bound to mouseup and mouseleave (501-502)
MouseUp ==
    /\ ~closed
    /\ isDragging' = FALSE
    /\ resizeHandle' = NoHandle
    /\ UNCHANGED <<appVars, geom, imageLoaded, cropBox, dragStart, constraintVars, previewVars, sessionVars, steps>>
    /\ lastOp' = [op |-> "up", init |-> FALSE]

\* togglePreview running initializeCropBox again when the preview is hidden
TogglePreviewResets ==
    /\ ~closed
    /\ \E ctxOk \in BOOLEAN :
          LET canvas == GetCroppedImage(ctxOk, Mounted, cropBox, imgWidth, imgHeight, naturalWidth, naturalHeight, currentRatioIndex, customMode, pixelWidth, pixelHeight)
          IN  IF showPreview
              THEN /\ showPreview' = FALSE
                   /\ previewUrl' = NoCanvas
                   /\ cropBox' = IF imageLoaded THEN FreshBox(Rendered, geom) ELSE cropBox
                   /\ lastOp' = [op |-> "previewOff", init |-> FALSE]
              ELSE /\ showPreview' = canvas.ok
                   /\ previewUrl' = canvas
                   /\ UNCHANGED cropBox
                   /\ lastOp' = [op |-> IF canvas.ok THEN "previewOn" ELSE "previewFailed", init |-> FALSE]
    /\ UNCHANGED <<appVars, geom, imageLoaded, pointerVars, constraintVars, sessionVars, steps>>

\* togglePreview (lines 316-327); ctxOk: canvas.getContext('2d') is not null
TogglePreview ==
    /\ ~closed
    /\ \E ctxOk \in BOOLEAN :
          LET canvas == GetCroppedImage(ctxOk, Mounted, cropBox, imgWidth, imgHeight, naturalWidth, naturalHeight, currentRatioIndex, customMode, pixelWidth, pixelHeight)
          IN  IF showPreview
              THEN /\ showPreview' = FALSE
                   /\ previewUrl' = NoCanvas
                   /\ lastOp' = [op |-> "previewOff", init |-> FALSE]
              ELSE /\ showPreview' = canvas.ok
                   /\ previewUrl' = canvas
                   /\ lastOp' = [op |-> IF canvas.ok THEN "previewOn" ELSE "previewFailed", init |-> FALSE]
    /\ UNCHANGED <<appVars, geom, imageLoaded, cropBox, pointerVars, constraintVars, sessionVars, steps>>

\* handleCrop calling onClose before it looks at the canvas
HandleCropClosesAnyway ==
    /\ ~closed
    /\ \E ctxOk \in BOOLEAN :
          LET canvas == GetCroppedImage(ctxOk, Mounted, cropBox, imgWidth, imgHeight, naturalWidth, naturalHeight, currentRatioIndex, customMode, pixelWidth, pixelHeight)
          IN  IF canvas.ok
              THEN /\ committed' = Append(committed, canvas)
                   /\ closed' = TRUE
                   /\ lastOp' = [op |-> "apply", init |-> FALSE]
              ELSE /\ UNCHANGED committed
                   /\ closed' = TRUE
                   /\ lastOp' = [op |-> "applyFailed", init |-> FALSE]
    /\ UNCHANGED <<appVars, geom, imageLoaded, cropBox, pointerVars, constraintVars, previewVars, steps>>

\* handleCrop without the call of onClose
HandleCropStaysOpen ==
    /\ ~closed
    /\ \E ctxOk \in BOOLEAN :
          LET canvas == GetCroppedImage(ctxOk, Mounted, cropBox, imgWidth, imgHeight, naturalWidth, naturalHeight, currentRatioIndex, customMode, pixelWidth, pixelHeight)
          IN  IF canvas.ok
              THEN /\ committed' = Append(committed, canvas)
                   /\ UNCHANGED closed
                   /\ lastOp' = [op |-> "apply", init |-> FALSE]
              ELSE /\ UNCHANGED <<committed, closed>>
                   /\ lastOp' = [op |-> "applyFailed", init |-> FALSE]
    /\ UNCHANGED <<appVars, geom, imageLoaded, cropBox, pointerVars, constraintVars, previewVars, steps>>

\* handleCrop (lines 309-314): the Apply button
HandleCrop ==
    /\ ~closed
    /\ \E ctxOk \in BOOLEAN :
          LET canvas == GetCroppedImage(ctxOk, Mounted, cropBox, imgWidth, imgHeight, naturalWidth, naturalHeight, currentRatioIndex, customMode, pixelWidth, pixelHeight)
          IN  IF canvas.ok
              THEN /\ committed' = Append(committed, canvas)
                   /\ closed' = TRUE
                   /\ lastOp' = [op |-> "apply", init |-> FALSE]
              ELSE /\ UNCHANGED <<committed, closed>>
                   /\ lastOp' = [op |-> "applyFailed", init |-> FALSE]
    /\ UNCHANGED <<appVars, geom, imageLoaded, cropBox, pointerVars, constraintVars, previewVars, steps>>

\* the Cancel button (line 379)
Cancel ==
    /\ ~closed
    /\ closed' = TRUE
    /\ UNCHANGED <<appVars, geom, imageLoaded, cropBox, pointerVars, constraintVars, previewVars, committed, steps>>
    /\ lastOp' = [op |-> "cancel", init |-> FALSE]

Next ==
    \/ ImageLoad
    \/ ToggleLock
    \/ SelectRatio
    \/ SetCustomMode
    \/ EditRatio
    \/ EditPixels
    \/ Wheel
    \/ MouseDown
    \/ MouseMove
    \/ MouseUp
    \/ TogglePreview
    \/ HandleCrop
    \/ Cancel

Spec == Init /\ [][Next]_vars

(***************************************************************************)
(* Vocabulary of the properties.                                           *)
(***************************************************************************)
RAbs(a) == <<Abs(a[1]), a[2]>>
Hundredth == Frac(1, 100)
Last(seq) == seq[Len(seq)]

displayWidth == R(geom.w)
displayHeight == R(geom.h)

\* the invariants of the data model (spec section 3)
InsideDisplay(b) ==
    /\ RLe(R(0), b.x) /\ RLe(R(0), b.y)
    /\ RLe(RAdd(b.x, b.width), displayWidth)
    /\ RLe(RAdd(b.y, b.height), displayHeight)
MinSize(b) == RLe(R(MIN_SIZE), b.width) /\ RLe(R(MIN_SIZE), b.height)

\* abs(width / height - r) < 0.01
RatioWithin(b, r) ==
    /\ b.height[1] # 0
    /\ RLt(RAbs(RSub(RDiv(b.width, b.height), r)), Hundredth)

IsCentered(b) ==
    /\ b.x = RHalf(RSub(displayWidth, b.width))
    /\ b.y = RHalf(RSub(displayHeight, b.height))

\* the effective constraint of spec section 4.2
RatioConstraint == lockAspectRatio /\ ~PixelMode(currentRatioIndex, customMode)
PixelTarget == lockAspectRatio /\ PixelMode(currentRatioIndex, customMode)
FreeConstraint == ~lockAspectRatio

\* the rectangle was set by the re-initialization effect in the last step
JustInitialized == lastOp.init
\* the canvas of the render made in the last step (Apply or preview)
JustRendered == lastOp.op \in {"apply", "previewOn"}
RenderedCanvas == IF lastOp.op = "apply" THEN Last(committed) ELSE previewUrl

(***************************************************************************)
(* C1.  Bounds invariant: on a loaded image, after any pointer-down,       *)
(* pointer-move or pointer-up event the crop rectangle lies inside the     *)
(* display box and is at least 50 x 50.                                    *)
(***************************************************************************)
PointerOps == {"down", "move", "translate", "resize", "up"}

C1_BoundsInvariant ==
    (imageLoaded /\ lastOp.op \in PointerOps) =>
        InsideDisplay(cropBox) /\ MinSize(cropBox)

(***************************************************************************)
(* C2.  Ratio preservation: while a ratio r is locked, the rectangle a     *)
(* resize pointer-move has just produced, with any handle and also when    *)
(* the boundary correction fired, has |width / height - r| < 0.01.         *)
(***************************************************************************)
C2_RatioPreserved ==
    (lastOp.op = "resize" /\ Truthy(currentRatio)) =>
        RatioWithin(cropBox, currentRatio)

\* a ratio-locked drag of the s handle that the boundary correction cut to
\* the right edge of the display box
C2_Witness ==
    /\ lastOp.op = "resize" /\ Truthy(currentRatio) /\ resizeHandle = "s"
    /\ RAdd(cropBox.x, cropBox.width) = displayWidth
    /\ RLt(cropBox.height, RSub(displayHeight, cropBox.y))

(***************************************************************************)
(* C3.  Width-first initialization: under a ratio constraint r with        *)
(* 0.8 * displayWidth / r <= 0.8 * displayHeight the initialized rectangle *)
(* is 0.8 * displayWidth wide, width / r high and centered; on a           *)
(* 1000 x 1000 display with r = 16/9 it is 800 x 450 at (100, 275).        *)
(***************************************************************************)
WidthFirstFits ==
    RLe(RDiv(RMul(displayWidth, Fill), currentRatio), RMul(displayHeight, Fill))

C3_WidthFirst ==
    (JustInitialized /\ RatioConstraint /\ WidthFirstFits) =>
        /\ cropBox.width = RMul(displayWidth, Fill)
        /\ cropBox.height = RDiv(cropBox.width, currentRatio)
        /\ IsCentered(cropBox)
        /\ (geom.w = 1000 /\ geom.h = 1000 /\ currentRatio = Frac(16, 9)) =>
               cropBox = Box(R(100), R(275), R(800), R(450))

C3_Witness ==
    /\ JustInitialized /\ RatioConstraint /\ WidthFirstFits
    /\ geom.w = 1000 /\ geom.h = 1000 /\ currentRatio = Frac(16, 9)
    /\ cropBox.width = R(800)

(***************************************************************************)
(* C4.  Height-bounded fallback: under a ratio constraint r with           *)
(* 0.8 * displayWidth / r > 0.8 * displayHeight the initialized rectangle  *)
(* is 0.8 * displayHeight high, height * r wide and centered; on a         *)
(* 1000 x 300 display with r = 16/9 it is 426.67 x 240 at (286.67, 30),    *)
(* to two decimals.                                                        *)
(***************************************************************************)
\* a equals the decimal n / 100 when rounded to two decimals
TwoDecimals(a, n) == RLe(RAbs(RSub(a, Frac(n, 100))), Frac(1, 200))

C4_HeightFallback ==
    (JustInitialized /\ RatioConstraint /\ ~WidthFirstFits) =>
        /\ cropBox.height = RMul(displayHeight, Fill)
        /\ cropBox.width = RMul(cropBox.height, currentRatio)
        /\ IsCentered(cropBox)
        /\ (geom.w = 1000 /\ geom.h = 300 /\ currentRatio = Frac(16, 9)) =>
               /\ cropBox.height = R(240) /\ cropBox.y = R(30)
               /\ TwoDecimals(cropBox.width, 42667)
               /\ TwoDecimals(cropBox.x, 28667)

C4_Witness ==
    /\ JustInitialized /\ RatioConstraint /\ ~WidthFirstFits
    /\ geom.w = 1000 /\ geom.h = 300 /\ currentRatio = Frac(16, 9)
    /\ cropBox.width = Frac(1280, 3)

(***************************************************************************)
(* C5.  Under the Free constraint and under every ratio constraint the     *)
(* initialized rectangle is at most 80% of the display box in width and    *)
(* in height, and reaches 80% in one of the two.                           *)
(***************************************************************************)
C5_EightyPercentMaximal ==
    (JustInitialized /\ (FreeConstraint \/ RatioConstraint)) =>
        /\ RLe(cropBox.width, RMul(displayWidth, Fill))
        /\ RLe(cropBox.height, RMul(displayHeight, Fill))
        /\ \/ cropBox.width = RMul(displayWidth, Fill)
           \/ cropBox.height = RMul(displayHeight, Fill)

(***************************************************************************)
(* C6.  Pixel-target initialization.  The candidate box is                 *)
(* pixelWidth / scaleX by pixelHeight / scaleY.                            *)
(***************************************************************************)
CandidateWidth == RDiv(R(pixelWidth), RDiv(R(geom.nw), displayWidth))
CandidateHeight == RDiv(R(pixelHeight), RDiv(R(geom.nh), displayHeight))
Downscale == RMul(MathMin(RDiv(displayWidth, CandidateWidth), RDiv(displayHeight, CandidateHeight)), Fill)
DownscaledCandidate ==
    /\ cropBox.width = RMul(CandidateWidth, Downscale)
    /\ cropBox.height = RMul(CandidateHeight, Downscale)
SameAspectAsCandidate ==
    RMul(cropBox.width, CandidateHeight) = RMul(cropBox.height, CandidateWidth)
WithinFill(b) ==
    /\ RLe(b.width, RMul(displayWidth, Fill))
    /\ RLe(b.height, RMul(displayHeight, Fill))
CandidateExceedsFill ==
    \/ RGt(CandidateWidth, RMul(displayWidth, Fill))
    \/ RGt(CandidateHeight, RMul(displayHeight, Fill))
CandidateExceedsDisplay ==
    \/ RGt(CandidateWidth, displayWidth)
    \/ RGt(CandidateHeight, displayHeight)

\* C6 as claimed: a candidate exceeding 80% of the display box in width or
\* height is downscaled by min(displayW / boxW, displayH / boxH) * 0.8, so
\* the initialized box never exceeds 80% of either display dimension and
\* keeps the candidate's aspect ratio.
C6_DownscaledAboveEighty ==
    (JustInitialized /\ PixelTarget) =>
        /\ CandidateExceedsFill => DownscaledCandidate
        /\ WithinFill(cropBox)
        /\ SameAspectAsCandidate

\* C6 as amended: the candidate is downscaled by that factor exactly when it
\* exceeds the display box itself (100%) in width or height, and then lies
\* within 80% of both display dimensions; a candidate that fits inside the
\* display box is kept as it is, so the initialized box never exceeds the
\* display box; in both cases it keeps the candidate's aspect ratio.
C6_DownscaledAboveDisplay ==
    (JustInitialized /\ PixelTarget) =>
        /\ CandidateExceedsDisplay => (DownscaledCandidate /\ WithinFill(cropBox))
        /\ ~CandidateExceedsDisplay =>
               (cropBox.width = CandidateWidth /\ cropBox.height = CandidateHeight)
        /\ RLe(cropBox.width, displayWidth) /\ RLe(cropBox.height, displayHeight)
        /\ SameAspectAsCandidate

\* a pixel target whose candidate lies between 80% and 100% of the display
\* width, initialized as it is
C6_Witness ==
    /\ JustInitialized /\ PixelTarget
    /\ CandidateExceedsFill /\ ~CandidateExceedsDisplay
    /\ cropBox.width = CandidateWidth

(***************************************************************************)
(* C7.  Every initialization, in every constraint mode, centers the        *)
(* rectangle in the display box, and the rectangle lies inside it.         *)
(***************************************************************************)
C7_InitCentered ==
    JustInitialized => (IsCentered(cropBox) /\ InsideDisplay(cropBox))

\* a downscaled pixel-target box, centered after an edit of the pixel fields
C7_Witness ==
    /\ JustInitialized /\ lastOp.op = "pixelInput" /\ CandidateExceedsDisplay
    /\ IsCentered(cropBox) /\ RLt(R(0), cropBox.x)

(***************************************************************************)
(* C8.  With the lock off the effective constraint is None whatever mode   *)
(* is selected: initialization yields the free 0.8 * displayWidth by       *)
(* 0.8 * displayHeight box, and a commit outputs the source-space size of  *)
(* the rectangle.                                                          *)
(***************************************************************************)
FreeBox == Centered(displayWidth, displayHeight, <<RMul(displayWidth, Fill), RMul(displayHeight, Fill)>>)
CanvasIsSourceSize(canvas) ==
    /\ canvas.canvasWidth = canvas.sourceWidth
    /\ canvas.canvasHeight = canvas.sourceHeight

C8_LockOffIsFree ==
    ~lockAspectRatio =>
        /\ JustInitialized => cropBox = FreeBox
        /\ lastOp.op = "apply" => CanvasIsSourceSize(Last(committed))

(***************************************************************************)
(* C9.  Pixel-target output: while a pixel target (pixelWidth,             *)
(* pixelHeight) is active, the canvas of every successful render, preview  *)
(* or commit, is exactly pixelWidth by pixelHeight.                        *)
(***************************************************************************)
C9_PixelTargetOutput ==
    (JustRendered /\ PixelTarget) =>
        /\ RenderedCanvas.canvasWidth = pixelWidth
        /\ RenderedCanvas.canvasHeight = pixelHeight

\* a commit that stretches: the sampled region is not pixelWidth wide
C9_Witness ==
    /\ lastOp.op = "apply" /\ PixelTarget /\ imageLoaded
    /\ Last(committed).sourceWidth # pixelWidth
    /\ Last(committed).canvasWidth = pixelWidth

(***************************************************************************)
(* C10.  With no pixel target active the canvas of a render of the loaded  *)
(* image is round(width * scaleX) by round(height * scaleY), the size of   *)
(* the extracted source rectangle.                                         *)
(***************************************************************************)
C10_UnscaledCopy ==
    (JustRendered /\ imageLoaded /\ ~PixelTarget) =>
        /\ RenderedCanvas.canvasWidth = MathRound(RMul(cropBox.width, RDiv(R(geom.nw), displayWidth)))
        /\ RenderedCanvas.canvasHeight = MathRound(RMul(cropBox.height, RDiv(R(geom.nh), displayHeight)))
        /\ CanvasIsSourceSize(RenderedCanvas)

(***************************************************************************)
(* The handler a step ran, read from the event it recorded.                *)
(***************************************************************************)
PreviewOps == {"previewOn", "previewOff", "previewFailed"}
ApplyOps == {"apply", "applyFailed"}
WheelOps == {"cycle", "preciseResize"}

(***************************************************************************)
(* C11.  A preview request is free of side effects on the editing state:   *)
(* showing the preview and hiding it again leave the crop rectangle, the   *)
(* ratio index, the lock and the custom ratio and pixel values unchanged,  *)
(* do not close the session and do not call onImageUpdate.                 *)
(***************************************************************************)
C11_PreviewFrame ==
    [][lastOp'.op \in {"previewOn", "previewOff"} =>
          UNCHANGED <<cropBox, constraintVars, sessionVars>>]_vars

\* the preview shown and hidden again over a rectangle the user has moved
C11_Witness ==
    /\ lastOp.op = "previewOff" /\ imageLoaded /\ ~showPreview
    /\ ~closed /\ committed = <<>>
    /\ cropBox # FreshBox(Rendered, geom)

(***************************************************************************)
(* C12.  A render failure aborts: when getCroppedImage returns null,       *)
(* Apply does not call onImageUpdate, does not close the session and       *)
(* leaves the rectangle, the constraint and the preview state unchanged;   *)
(* a failed preview request leaves showPreview false.                      *)
(***************************************************************************)
C12_FailureAborts ==
    [][/\ lastOp'.op = "applyFailed" =>
             UNCHANGED <<cropBox, constraintVars, previewVars, sessionVars>>
       /\ lastOp'.op = "previewFailed" =>
             /\ showPreview' = FALSE
             /\ UNCHANGED <<cropBox, constraintVars, previewVars, sessionVars>>]_vars

\* Apply pressed while the preview replaces the source image element
C12_Witness ==
    /\ lastOp.op = "applyFailed" /\ imageLoaded /\ showPreview
    /\ ~closed /\ committed = <<>>

(***************************************************************************)
(* C13.  On a render failure during commit the collaborator is notified:   *)
(* one of the callbacks the component was given, onImageUpdate or onClose, *)
(* is called.                                                              *)
(***************************************************************************)
CollaboratorCalls == Len(committed) + (IF closed THEN 1 ELSE 0)

C13_FailureNotified ==
    [][lastOp'.op = "applyFailed" => CollaboratorCalls' > CollaboratorCalls]_vars

(***************************************************************************)
(* C14.  A successful Apply calls onImageUpdate exactly once, with the     *)
(* rendered canvas, and then closes the session; no other event calls      *)
(* onImageUpdate.                                                          *)
(***************************************************************************)
C14_CommitOnce ==
    [][/\ lastOp'.op = "apply" =>
             /\ Len(committed') = Len(committed) + 1
             /\ SubSeq(committed', 1, Len(committed)) = committed
             /\ Last(committed').ok
             /\ closed'
       /\ lastOp'.op # "apply" => committed' = committed]_vars

\* a session ended by Apply with a single commit of a rendered region
C14_Witness ==
    /\ lastOp.op = "apply" /\ closed /\ Len(committed) = 1
    /\ imageLoaded /\ committed[1].sourceWidth > 0

(***************************************************************************)
(* C15.  Wheel cycling is cyclic over the catalog of 8 ratios: under the   *)
(* lock a wheel event without the modifier takes the index i to            *)
(* (i + 1) mod 8 or to (i - 1) mod 8, 'previous' from 0 giving 7;  8       *)
(* events in one direction come back to i, 'next' then 'previous' is the   *)
(* identity, and the index stays in 0..7.                                  *)
(***************************************************************************)
RECURSIVE CycleTimes(_, _, _)
CycleTimes(i, deltaYPositive, n) ==
    IF n = 0 THEN i ELSE CycleTimes(CycleIndex(i, deltaYPositive), deltaYPositive, n - 1)

C15_WheelCyclic ==
    [][(lastOp'.op = "cycle" /\ lockAspectRatio) =>
          LET i == currentRatioIndex
          IN  /\ Len(ASPECT_RATIOS) = 8
              /\ i \in 0..7
              /\ currentRatioIndex' \in {(i + 1) % 8, (i + 7) % 8}
              /\ CycleIndex(i, TRUE) = (i + 1) % 8
              /\ CycleIndex(i, FALSE) = (i + 7) % 8
              /\ CycleIndex(CycleIndex(i, TRUE), FALSE) = i
              /\ CycleIndex(CycleIndex(i, FALSE), TRUE) = i
              /\ CycleTimes(i, TRUE, 8) = i
              /\ CycleTimes(i, FALSE, 8) = i]_vars

\* the first event of a session, a wheel 'previous' from index 0 to index 7
C15_Witness ==
    lastOp.op = "cycle" /\ lockAspectRatio /\ steps = 1 /\ currentRatioIndex = 7

(***************************************************************************)
(* C16.  With the lock off a wheel event without the modifier has no       *)
(* effect: the ratio index, the rectangle, the interaction state and the   *)
(* custom values are unchanged.                                            *)
(***************************************************************************)
C16_WheelUnlockedFrame ==
    [][(lastOp'.op = "cycle" /\ ~lockAspectRatio) =>
          UNCHANGED <<cropBox, pointerVars, constraintVars, previewVars, sessionVars>>]_vars

\* such a wheel event over a loaded image
C16_Witness ==
    lastOp.op = "cycle" /\ ~lockAspectRatio /\ imageLoaded /\ ~closed

(***************************************************************************)
(* C17.  Until the image has loaded every core operation is a no-op:       *)
(* wheel events with or without the modifier, pointer events, preview and  *)
(* Apply leave the rectangle and the ratio index unchanged, and Apply      *)
(* neither calls onImageUpdate nor closes the session.                     *)
(***************************************************************************)
C17_NoOpBeforeLoad ==
    [][(~imageLoaded /\ lastOp'.op \in WheelOps \cup PointerOps \cup PreviewOps \cup ApplyOps) =>
          UNCHANGED <<cropBox, currentRatioIndex, sessionVars>>]_vars

(***************************************************************************)
(* C19.  The minimum size holds outside drag and resize too: after every   *)
(* initialization, in any constraint mode, and after every precise-resize  *)
(* wheel event, width >= 50 and height >= 50.                              *)
(***************************************************************************)
C19_MinSizeElsewhere ==
    (imageLoaded /\ (JustInitialized \/ (lastOp.op = "preciseResize" /\ Mounted))) =>
        MinSize(cropBox)

(***************************************************************************)
(* C20.  Precise resize (wheel with the modifier): the resulting rectangle *)
(* lies inside the display box, and under a locked ratio r it has          *)
(* width / height = r, also when the width or the height clamp fired.      *)
(***************************************************************************)
C20_PreciseResizeSafe ==
    (lastOp.op = "preciseResize" /\ imageLoaded /\ Mounted) =>
        /\ InsideDisplay(cropBox)
        /\ Truthy(currentRatio) =>
              /\ cropBox.height[1] # 0
              /\ RDiv(cropBox.width, cropBox.height) = currentRatio

\* a ratio-locked enlargement that the width clamp cut to the display width
C20_Witness ==
    /\ lastOp.op = "preciseResize" /\ imageLoaded /\ Mounted
    /\ Truthy(currentRatio)
    /\ cropBox.width = displayWidth /\ cropBox.x = R(0)

(***************************************************************************)
(* The coordinate mapping of getCroppedImage (lines 265-292) on its own:   *)
(* a loaded image of any display and natural size, the rectangle anywhere  *)
(* inside the display box, then renders for the preview or for Apply.      *)
(***************************************************************************)
\* display sizes with natural sizes giving the scales 2, 3/2, 1, 1/2, 1/4,
\* and 3/2 by 1/2
MapperGeometries ==
    { [w |-> 1000, h |-> 1000, nw |-> 2000, nh |-> 2000],
      [w |-> 1000, h |-> 300, nw |-> 1500, nh |-> 450],
      [w |-> 1000, h |-> 300, nw |-> 1000, nh |-> 300],
      [w |-> 1000, h |-> 300, nw |-> 500, nh |-> 150],
      [w |-> 1000, h |-> 300, nw |-> 250, nh |-> 75],
      [w |-> 1000, h |-> 300, nw |-> 1500, nh |-> 150] }

\* offsets and sizes of the rectangle, in display pixels
MapperOffsets == { R(0), Frac(1, 2), Frac(100, 3), R(51) }
MapperSizes == { R(50), R(51), Frac(151, 3), Frac(401, 2) }

MapperRects(g) ==
    { b \in { Box(x, y, w, h) : x \in MapperOffsets, y \in MapperOffsets, w \in MapperSizes, h \in MapperSizes } :
        RLe(RAdd(b.x, b.width), R(g.w)) /\ RLe(RAdd(b.y, b.height), R(g.h)) }

MapperInit ==
    /\ geom \in MapperGeometries
    /\ imageLoaded = TRUE
    /\ cropBox \in MapperRects(geom)
    /\ isDragging = FALSE
    /\ dragStart = [x |-> R(0), y |-> R(0)]
    /\ resizeHandle = NoHandle
    /\ currentRatioIndex = 0
    /\ lockAspectRatio = FALSE
    /\ customWidth = 16
    /\ customHeight = 9
    /\ customMode = "ratio"
    /\ pixelWidth = 1920
    /\ pixelHeight = 1080
    /\ showPreview = FALSE
    /\ previewUrl = NoCanvas
    /\ committed = <<>>
    /\ closed = FALSE
    /\ steps = 0
    /\ lastOp = [op |-> "up", init |-> FALSE]
    /\ CropSessionApp

MapperNext ==
    \/ TogglePreview
    \/ HandleCrop

MapperSpec == MapperInit /\ [][MapperNext]_vars

(***************************************************************************)
(* C18.  Coordinate round trip: the source rectangle of a render, each     *)
(* field rounded on its own, divided back by the scale.                    *)
(***************************************************************************)
scaleX == RDiv(R(geom.nw), displayWidth)
scaleY == RDiv(R(geom.nh), displayHeight)

\* |round(v * scale) / scale - v| <= tolerance
Reconstructs(source, v, scale, tolerance) ==
    RLe(RAbs(RSub(RDiv(R(source), scale), v)), tolerance)

RoundTripWithin(canvas, tolX, tolY) ==
    /\ Reconstructs(canvas.sourceX, cropBox.x, scaleX, tolX)
    /\ Reconstructs(canvas.sourceY, cropBox.y, scaleY, tolY)
    /\ Reconstructs(canvas.sourceWidth, cropBox.width, scaleX, tolX)
    /\ Reconstructs(canvas.sourceHeight, cropBox.height, scaleY, tolY)

\* C18 as claimed: for every rectangle inside the display box and every
\* positive scale pair, mapping to source space and dividing back by the scale
\* reconstructs x, y, width and height within 1 pixel of the original.
C18_RoundTripOnePixel ==
    (JustRendered /\ InsideDisplay(cropBox)) =>
        RoundTripWithin(RenderedCanvas, R(1), R(1))

\* C18 as amended: each field is reconstructed within half a source pixel,
\* that is within 1 / (2 * scale) display pixels; this is within 1 pixel when
\* the scale is at least 1/2.
C18_RoundTripHalfSourcePixel ==
    (JustRendered /\ InsideDisplay(cropBox)) =>
        /\ RoundTripWithin(RenderedCanvas, RDiv(R(1), RMul(R(2), scaleX)), RDiv(R(1), RMul(R(2), scaleY)))
        /\ (RLe(Frac(1, 2), scaleX) /\ RLe(Frac(1, 2), scaleY)) =>
               RoundTripWithin(RenderedCanvas, R(1), R(1))

\* a render at scale 3/2 by 1/2 whose rounding moved the width
C18_Witness ==
    /\ JustRendered /\ InsideDisplay(cropBox)
    /\ scaleX = Frac(3, 2) /\ scaleY = Frac(1, 2)
    /\ RDiv(R(RenderedCanvas.sourceWidth), scaleX) # cropBox.width

(***************************************************************************)
(* C21.  Precise resize scales the rectangle about its own center:         *)
(* whenever no clamp is needed, the new width is 0.95 times (deltaY > 0)   *)
(* or 1.05 times (otherwise) the old width, and the center                 *)
(* (x + width / 2, y + height / 2) is unchanged.                           *)
(***************************************************************************)
Center(b) == <<RAdd(b.x, RHalf(b.width)), RAdd(b.y, RHalf(b.height))>>
WheelFactor(deltaYPositive) == IF deltaYPositive THEN Frac(95, 100) ELSE Frac(105, 100)

\* the rectangle b scaled by f about its center, the height following the
\* ratio r when one is locked
ScaledAboutCenter(b, f, r) ==
    LET w == RMul(b.width, f)
        h == IF Truthy(r) THEN RDiv(w, r) ELSE RMul(b.height, f)
    IN  Box(RAdd(b.x, RHalf(RSub(b.width, w))), RAdd(b.y, RHalf(RSub(b.height, h))), w, h)

C21_ScalesAboutCenter ==
    [][(lastOp'.op = "preciseResize" /\ imageLoaded /\ Mounted) =>
          \A deltaYPositive \in BOOLEAN :
              (/\ WheelAt(TRUE, deltaYPositive)
               /\ InsideDisplay(ScaledAboutCenter(cropBox, WheelFactor(deltaYPositive), currentRatio))) =>
                  /\ cropBox'.width = RMul(cropBox.width, WheelFactor(deltaYPositive))
                  /\ Center(cropBox') = Center(cropBox)]_vars

\* the initial box of a 1000 x 1000 image shrunk once and moved by nothing
C21_Witness ==
    /\ lastOp.op = "preciseResize" /\ imageLoaded /\ Mounted
    /\ cropBox.width = RMul(RMul(displayWidth, Fill), Frac(95, 100))
    /\ IsCentered(cropBox)

(***************************************************************************)
(* C22.  Every wheel event that cycles the ratio selection (lock on, no    *)
(* modifier, image loaded and shown) is followed by the initial box of the *)
(* newly selected constraint, also between 16:9 and a Custom entry of the  *)
(* same numeric value.                                                     *)
(***************************************************************************)
C22_CycleReinitializes ==
    (lastOp.op = "cycle" /\ lockAspectRatio /\ imageLoaded /\ Mounted) =>
        cropBox = FreshBox(Rendered, geom)

(***************************************************************************)
(* C23.  On a loaded image every change of the effective constraint and    *)
(* every lock toggle replaces the rectangle by the initial box of the new  *)
(* constraint, whether the editing view or the preview is shown.           *)
(***************************************************************************)
ConstraintOps == {"lock", "select", "mode", "ratioInput", "pixelInput"}

\* None, Ratio(a / b) or PixelTarget(a, b) of the render r
EffectiveConstraint(r) ==
    IF ~r.lock THEN [kind |-> "None", a |-> 0, b |-> 0]
    ELSE IF PixelMode(r.idx, r.mode) THEN [kind |-> "PixelTarget", a |-> r.pw, b |-> r.ph]
    ELSE [kind |-> "Ratio", a |-> RatioOf(r)[1], b |-> RatioOf(r)[2]]

C23_ConstraintChangeReinitializes ==
    [][\E new \in {Rendered'} :
          (/\ imageLoaded /\ lastOp'.op \in ConstraintOps
           /\ (EffectiveConstraint(new) # EffectiveConstraint(Rendered) \/ new.lock # Rendered.lock)) =>
              cropBox' = FreshBox(new, geom)]_vars

(***************************************************************************)
(* C24.  Translating: pointer-down on the body records the grab offset     *)
(* O = P - (x, y); a pointer-move while translating sets                   *)
(* x = clamp(Px - Ox, 0, displayWidth - width) and                         *)
(* y = clamp(Py - Oy, 0, displayHeight - height) and leaves width and      *)
(* height unchanged.  Rectangles inside the display box are considered.    *)
(***************************************************************************)
ClampTo(v, lo, hi) == IF RLt(v, lo) THEN lo ELSE IF RGt(v, hi) THEN hi ELSE v

C24_TranslateUpdate ==
    [][/\ lastOp'.op = "down" =>
             \A Px \in GridPoints(geom.w), Py \in GridPoints(geom.h) :
                 MouseDownAt(NoHandle, Px, Py) =>
                     /\ isDragging'
                     /\ dragStart' = [x |-> RSub(Px, cropBox.x), y |-> RSub(Py, cropBox.y)]
       /\ (lastOp'.op = "translate" /\ InsideDisplay(cropBox)) =>
             \A Px \in GridPoints(geom.w), Py \in GridPoints(geom.h) :
                 MouseMoveAt(Px, Py) =>
                     cropBox' = Box(ClampTo(RSub(Px, dragStart.x), R(0), RSub(displayWidth, cropBox.width)),
                                    ClampTo(RSub(Py, dragStart.y), R(0), RSub(displayHeight, cropBox.height)),
                                    cropBox.width, cropBox.height)]_vars

\* the initial box dragged into the lower left corner, clamped on both axes
C24_Witness ==
    /\ lastOp.op = "translate" /\ isDragging
    /\ cropBox.x = R(0) /\ cropBox.y = RSub(displayHeight, cropBox.height)
    /\ cropBox.width = RMul(displayWidth, Fill)

(***************************************************************************)
(* C25.  Pointer-up and pointer-leave return the interaction to Idle (not  *)
(* dragging, no handle) from any state and do not change the rectangle;    *)
(* in Idle a pointer-move leaves the rectangle unchanged.                  *)
(***************************************************************************)
Idle == ~isDragging /\ resizeHandle = NoHandle

C25_ReleaseToIdle ==
    [][/\ lastOp'.op = "up" =>
             (~isDragging' /\ resizeHandle' = NoHandle /\ cropBox' = cropBox)
       /\ (Idle /\ lastOp'.op \in {"move", "translate", "resize"}) => cropBox' = cropBox]_vars

\* a resize ended by the release of the pointer
C25_Witness ==
    /\ lastOp.op = "up" /\ Idle /\ imageLoaded
    /\ cropBox # FreshBox(Rendered, geom) /\ cropBox.height = R(MIN_SIZE)

(***************************************************************************)
(* C26.  At most one interaction is active: isDragging is never set while  *)
(* a resize handle is active.                                              *)
(***************************************************************************)
C26_OneInteraction == ~(isDragging /\ resizeHandle # NoHandle)

(***************************************************************************)
(* Resize with a single edge handle, in the words of the specification:    *)
(* the box a pointer-move at P asks for before the boundary correction.    *)
(***************************************************************************)
Right(b) == RAdd(b.x, b.width)
Bottom(b) == RAdd(b.y, b.height)
Locked == Truthy(currentRatio)

\* the w handle: the left edge follows Px up to 50 before the right edge
CandidateW(b, Px, r) ==
    LET newX == MathMax(R(0), MathMin(Px, RSub(Right(b), R(50))))
        w == RSub(Right(b), newX)
        h == IF Truthy(r) THEN RDiv(w, r) ELSE b.height
    IN  Box(newX, IF Truthy(r) THEN RAdd(b.y, RHalf(RSub(b.height, h))) ELSE b.y, w, h)

\* the n handle: the top edge follows Py up to 50 before the bottom edge
CandidateN(b, Py, r) ==
    LET newY == MathMax(R(0), MathMin(Py, RSub(Bottom(b), R(50))))
        h == RSub(Bottom(b), newY)
        w == IF Truthy(r) THEN RMul(h, r) ELSE b.width
    IN  Box(IF Truthy(r) THEN RAdd(b.x, RHalf(RSub(b.width, w))) ELSE b.x, newY, w, h)

\* the boundary correction has nothing to cut
FitsRightAndBottom(b) == RLe(Right(b), displayWidth) /\ RLe(Bottom(b), displayHeight)

\* the step is a resize pointer-move with the edge handle named handle
ResizesWith(handle) == lastOp'.op = "resize" /\ resizeHandle = handle

(***************************************************************************)
(* C27.  Opposite-edge anchoring.                                          *)
(***************************************************************************)
\* C27 as claimed: for every resize pointer-move, in Free mode and under any
\* ratio lock, the e handle leaves x fixed, the w handle leaves x + width
\* fixed, the s handle leaves y fixed and the n handle leaves y + height
\* fixed (from a rectangle inside the display box, at least 50 x 50).
C27_OppositeEdgeFixed ==
    [][(InsideDisplay(cropBox) /\ MinSize(cropBox)) =>
          /\ ResizesWith("e") => cropBox'.x = cropBox.x
          /\ ResizesWith("w") => Right(cropBox') = Right(cropBox)
          /\ ResizesWith("s") => cropBox'.y = cropBox.y
          /\ ResizesWith("n") => Bottom(cropBox') = Bottom(cropBox)]_vars

\* What handleMouseMove does keep: the e handle always leaves x fixed and
\* the s handle y; the w handle leaves x + width fixed and the n handle
\* y + height fixed whenever lines 233-244 do not cut the box the move asks
\* for, which is always so in Free mode from a rectangle inside the display
\* box.
C27_OppositeEdgeFixedUncut ==
    [][/\ ResizesWith("e") => cropBox'.x = cropBox.x
       /\ ResizesWith("s") => cropBox'.y = cropBox.y
       /\ ResizesWith("w") =>
             \A Px \in GridPoints(geom.w), Py \in GridPoints(geom.h) :
                 /\ (MouseMoveAt(Px, Py) /\ FitsRightAndBottom(CandidateW(cropBox, Px, currentRatio))) =>
                       Right(cropBox') = Right(cropBox)
                 /\ (~Locked /\ InsideDisplay(cropBox)) =>
                       FitsRightAndBottom(CandidateW(cropBox, Px, currentRatio))
       /\ ResizesWith("n") =>
             \A Px \in GridPoints(geom.w), Py \in GridPoints(geom.h) :
                 /\ (MouseMoveAt(Px, Py) /\ FitsRightAndBottom(CandidateN(cropBox, Py, currentRatio))) =>
                       Bottom(cropBox') = Bottom(cropBox)
                 /\ (~Locked /\ InsideDisplay(cropBox)) =>
                       FitsRightAndBottom(CandidateN(cropBox, Py, currentRatio))]_vars

\* the left edge of the initial 16:9 box dragged to the middle of the image
C27_Witness ==
    /\ lastOp.op = "resize" /\ resizeHandle = "w" /\ Locked
    /\ cropBox.x = RHalf(displayWidth)
    /\ Right(cropBox) = RAdd(RHalf(RSub(displayWidth, RMul(displayWidth, Fill))), RMul(displayWidth, Fill))

(***************************************************************************)
(* C28.  Symmetric re-centering under a ratio lock.                        *)
(***************************************************************************)
\* C28 as claimed: under a ratio lock every pointer-move with the w handle
\* leaves the vertical center y + height / 2 unchanged and every pointer-move
\* with the n handle leaves the horizontal center x + width / 2 unchanged
\* (from a rectangle inside the display box, at least 50 x 50).
C28_CenterKept ==
    [][(Locked /\ InsideDisplay(cropBox) /\ MinSize(cropBox)) =>
          /\ ResizesWith("w") => Center(cropBox')[2] = Center(cropBox)[2]
          /\ ResizesWith("n") => Center(cropBox')[1] = Center(cropBox)[1]]_vars

\* What handleMouseMove does keep: the same, whenever lines 233-244 do not
\* cut the box the move asks for.
C28_CenterKeptUncut ==
    [][Locked =>
          /\ ResizesWith("w") =>
                \A Px \in GridPoints(geom.w), Py \in GridPoints(geom.h) :
                    (MouseMoveAt(Px, Py) /\ FitsRightAndBottom(CandidateW(cropBox, Px, currentRatio))) =>
                        Center(cropBox')[2] = Center(cropBox)[2]
          /\ ResizesWith("n") =>
                \A Px \in GridPoints(geom.w), Py \in GridPoints(geom.h) :
                    (MouseMoveAt(Px, Py) /\ FitsRightAndBottom(CandidateN(cropBox, Py, currentRatio))) =>
                        Center(cropBox')[1] = Center(cropBox)[1]]_vars

\* the top edge of the initial 16:9 box dragged to the middle of the image:
\* the box is narrower and still centered horizontally
C28_Witness ==
    /\ lastOp.op = "resize" /\ resizeHandle = "n" /\ Locked
    /\ cropBox.y = RHalf(displayHeight)
    /\ RLt(cropBox.width, RMul(displayWidth, Fill))
    /\ Center(cropBox)[1] = RHalf(displayWidth)

(***************************************************************************)
(* C29.  Free-mode edge resize: with no ratio, from a rectangle inside the *)
(* display box and at least 50 x 50, a single edge handle changes only its *)
(* own dimension: e sets width = clamp(Px - x, 50, displayWidth - x), s    *)
(* sets height = clamp(Py - y, 50, displayHeight - y), w and n move their  *)
(* edge to clamp(P, 0, opposite edge - 50); the orthogonal position and    *)
(* dimension are unchanged.                                                *)
(***************************************************************************)
FreeEdgeResize(b, handle, Px, Py) ==
    CASE handle = "e" -> [b EXCEPT !.width = ClampTo(RSub(Px, b.x), R(50), RSub(displayWidth, b.x))]
      [] handle = "s" -> [b EXCEPT !.height = ClampTo(RSub(Py, b.y), R(50), RSub(displayHeight, b.y))]
      [] handle = "w" -> LET newX == ClampTo(Px, R(0), RSub(Right(b), R(50)))
                         IN  [b EXCEPT !.x = newX, !.width = RSub(Right(b), newX)]
      [] handle = "n" -> LET newY == ClampTo(Py, R(0), RSub(Bottom(b), R(50)))
                         IN  [b EXCEPT !.y = newY, !.height = RSub(Bottom(b), newY)]

C29_FreeEdgeResize ==
    [][(/\ lastOp'.op = "resize" /\ resizeHandle \in {"e", "s", "w", "n"}
        /\ ~Locked /\ InsideDisplay(cropBox) /\ MinSize(cropBox)) =>
          \A Px \in GridPoints(geom.w), Py \in GridPoints(geom.h) :
              MouseMoveAt(Px, Py) => cropBox' = FreeEdgeResize(cropBox, resizeHandle, Px, Py)]_vars

\* the free box narrowed with the e handle down to the minimum width
C29_Witness ==
    /\ lastOp.op = "resize" /\ resizeHandle = "e" /\ ~Locked
    /\ cropBox.width = R(50)
    /\ cropBox.height = RMul(displayHeight, Fill)

(***************************************************************************)
(* C30.  Boundary correction: after every resize pointer-move, with any    *)
(* handle, free or ratio-locked, x + width <= displayWidth and             *)
(* y + height <= displayHeight.                                            *)
(***************************************************************************)
C30_BoundaryCorrected ==
    lastOp.op = "resize" => FitsRightAndBottom(cropBox)

\* a ratio-locked drag of the w handle whose height the correction cut to
\* the bottom edge of the display box
C30_Witness ==
    /\ lastOp.op = "resize" /\ resizeHandle = "w" /\ Locked
    /\ Bottom(cropBox) = displayHeight
    /\ Right(cropBox) # RAdd(RHalf(RSub(displayWidth, RMul(displayWidth, Fill))), RMul(displayWidth, Fill))

(***************************************************************************)
(* An editing session that starts in pixel-target mode: the image is       *)
(* loaded, the lock is on, Custom is selected, the Pixels tab is open with *)
(* the target tw x th typed in, and the rectangle is the one the effect of *)
(* lines 102-106 has just initialized.                                     *)
(***************************************************************************)
\* targets the pixel fields can hold: the defaults, and PixelInputs parsed
PixelTargets == { <<1920, 1080>>, <<800, 3000>>, <<3000, 800>>, <<800, 800>> }

PixelInit ==
    /\ geom \in Geometries
    /\ imageLoaded = TRUE
    /\ isDragging = FALSE
    /\ dragStart = [x |-> R(0), y |-> R(0)]
    /\ currentRatioIndex = Len(ASPECT_RATIOS) - 1
    /\ showPreview = FALSE
    /\ previewUrl = NoCanvas
    /\ lockAspectRatio = TRUE
    /\ resizeHandle = NoHandle
    /\ customWidth = 16
    /\ customHeight = 9
    /\ customMode = "pixels"
    /\ \E t \in PixelTargets : pixelWidth = t[1] /\ pixelHeight = t[2]
    /\ committed = <<>>
    /\ closed = FALSE
    /\ steps = 0
    /\ lastOp = [op |-> "pixelInput", init |-> TRUE]
    /\ CropSessionApp
    /\ cropBox = InitializeCropBox(R(geom.w), R(geom.h), geom.nw, geom.nh, currentRatioIndex, customMode, Frac(pixelWidth, pixelHeight), pixelWidth, pixelHeight)

PixelNext == MouseDown \/ MouseMove \/ MouseUp \/ Wheel

PixelSpec == PixelInit /\ [][PixelNext]_vars

(***************************************************************************)
(* C31.  During resize and the precise-resize wheel, PixelTarget(tw, th)   *)
(* with the lock on behaves exactly like Ratio(tw / th): from the same     *)
(* rectangle and for the same event, the rectangle the handler produces in *)
(* pixel mode is the one it produces in ratio mode with the custom ratio   *)
(* fields holding tw and th.                                               *)
(***************************************************************************)
\* currentRatio of the same state with the Ratio tab open on tw : th
RatioTwin == CurrentRatio(lockAspectRatio, currentRatioIndex, "ratio", pixelWidth, pixelHeight, pixelWidth, pixelHeight)

PixelTargetLocked == lockAspectRatio /\ PixelMode(currentRatioIndex, customMode)

C31_PixelTargetIsRatio ==
    [][PixelTargetLocked =>
          /\ lastOp'.op = "resize" =>
                \A Px \in GridPoints(geom.w), Py \in GridPoints(geom.h) :
                    MouseMoveAt(Px, Py) =>
                        cropBox' = Resize(cropBox, resizeHandle, Px, Py, imgWidth, imgHeight, RatioTwin)
          /\ (lastOp'.op = "preciseResize" /\ Mounted) =>
                \A deltaYPositive \in BOOLEAN :
                    WheelAt(TRUE, deltaYPositive) =>
                        cropBox' = PreciseResize(cropBox, WheelFactor(deltaYPositive), imgWidth, imgHeight, RatioTwin)]_vars

\* a pixel-target rectangle made narrower with the e handle: its height has
\* followed the ratio tw / th
C31_Witness ==
    /\ PixelTargetLocked /\ lastOp.op = "resize" /\ resizeHandle = "e"
    /\ cropBox.width = RSub(Frac(geom.w, 2), cropBox.x)
    /\ cropBox.height = RDiv(cropBox.width, Frac(pixelWidth, pixelHeight))
    /\ cropBox # InitializeCropBox(R(geom.w), R(geom.h), geom.nw, geom.nh, currentRatioIndex, customMode, currentRatio, pixelWidth, pixelHeight)

(***************************************************************************)
(* C32.  Lock implies shape: whenever the image is loaded, the lock is on  *)
(* and the editing view is shown, width / height of the crop rectangle is  *)
(* the current effective ratio.                                            *)
(***************************************************************************)
HasShape(b, r) == b.width = RMul(b.height, r)

C32_LockImpliesShape ==
    (imageLoaded /\ lockAspectRatio /\ Mounted) => HasShape(cropBox, currentRatio)

(***************************************************************************)
(* C33.  The extracted source rectangle lies inside the source image: for  *)
(* every crop rectangle inside the display box, the source rectangle of a  *)
(* render, each field rounded on its own, has                              *)
(* sourceX + sourceWidth <= naturalWidth and                               *)
(* sourceY + sourceHeight <= naturalHeight.                                *)
(***************************************************************************)
C33_SourceInsideImage ==
    (JustRendered /\ InsideDisplay(cropBox)) =>
        /\ RenderedCanvas.sourceX + RenderedCanvas.sourceWidth <= geom.nw
        /\ RenderedCanvas.sourceY + RenderedCanvas.sourceHeight <= geom.nh

(***************************************************************************)
(* A crop session in which the user never touches the rectangle: no        *)
(* pointer event and no shift-wheel, only the constraint controls, the     *)
(* ratio-cycling wheel, the preview, Apply and Cancel.                     *)
(***************************************************************************)
\* handleWheel without shiftKey (lines 142-150)
WheelCycle == \E deltaYPositive \in BOOLEAN : WheelAt(FALSE, deltaYPositive)

UntouchedNext ==
    \/ ImageLoad
    \/ ToggleLock
    \/ SelectRatio
    \/ SetCustomMode
    \/ EditRatio
    \/ EditPixels
    \/ WheelCycle
    \/ TogglePreview
    \/ HandleCrop
    \/ Cancel

UntouchedSpec == Init /\ [][UntouchedNext]_vars

(***************************************************************************)
(* C34.  Pixel-target fit: when a pixel target (tw, th) is active on a     *)
(* loaded image, the candidate box fits inside the display box and the     *)
(* user commits without                                                    *)
(* having moved or resized the rectangle, the extracted source rectangle   *)
(* is exactly tw by th source pixels.                                      *)
(***************************************************************************)
CandidateFits == RLe(CandidateWidth, displayWidth) /\ RLe(CandidateHeight, displayHeight)

C34_PixelTargetFit ==
    (lastOp.op = "apply" /\ imageLoaded /\ PixelTarget /\ CandidateFits) =>
        /\ Last(committed).sourceWidth = pixelWidth
        /\ Last(committed).sourceHeight = pixelHeight

(***************************************************************************)
(* C35.  With the lock on the effective ratio is a strictly positive       *)
(* finite number: the custom ratio fields and the pixel target fields are  *)
(* at least 1 after any sequence of edits (non-numeric, empty, zero or     *)
(* negative input is replaced by 1) and swaps, and the value 0 of the      *)
(* Custom entry of the catalog is never the ratio in use.                  *)
(***************************************************************************)
PositiveFinite(r) == r # Null /\ r[1] > 0 /\ r[2] > 0

C35_RatioPositive ==
    /\ customWidth >= 1 /\ customHeight >= 1
    /\ pixelWidth >= 1 /\ pixelHeight >= 1
    /\ lockAspectRatio =>
          /\ PositiveFinite(currentRatio)
          /\ isCustomRatio => currentRatio # ASPECT_RATIOS[Len(ASPECT_RATIOS)]

\* a rejected input in the custom ratio width field, then Custom 1:9 in use
C35_Witness ==
    /\ lastOp.op = "ratioInput" /\ lockAspectRatio /\ isCustomRatio
    /\ customWidth = 1 /\ customHeight = 9
    /\ currentRatio = Frac(1, 9)

(***************************************************************************)
(* App (src/src/App.tsx) and the size table (ImageSizeInfo.tsx): imageInfo *)
(* and the asynchronous work that sets it.  A request starts a chain of    *)
(* callbacks (FileReader.onload, Image.onload, fetch / blob, toBlob); each *)
(* callback is one step, and the callbacks of different requests run in    *)
(* any order.  Every callback works on the imageInfo its handler captured  *)
(* in the render of the request.  An image that never decodes or a fetch   *)
(* that rejects leaves its request pending for ever.                       *)
(***************************************************************************)
\* files the user drops or picks
Files == {"a", "b"}

NextId == Len(issued) + 1

Request(kind, url) == issued' = Append(issued, [kind |-> kind, url |-> url, generation |-> generation])

\* a callback chain in flight
Task(id, kind, stage, url, info) ==
    [id |-> id, kind |-> kind, stage |-> stage, url |-> url, info |-> info, generation |-> generation]

\* handleImageLoad (App.tsx lines 23-42): reader.readAsDataURL(file)
HandleImageLoad ==
    /\ Len(issued) < MaxRequests
    /\ \E file \in Files :
          /\ pending' = pending \cup {Task(NextId, "load", "read", <<"file", file>>, NoImage)}
          /\ Request("load", <<"file", file>>)
    /\ UNCHANGED <<cropperVars, imageInfo, applied, generation>>

\* reader.onload (lines 25-40): img.src = the data URL
ReaderOnLoad(t) ==
    /\ t.kind = "load" /\ t.stage = "read"
    /\ pending' = (pending \ {t}) \cup {[t EXCEPT !.stage = "decode"]}
    /\ UNCHANGED <<cropperVars, imageInfo, issued, applied, generation>>

\* img.onload of handleImageLoad (lines 27-38): setImageInfo of the file
FileImageOnLoad(t) ==
    /\ t.kind = "load" /\ t.stage = "decode"
    /\ imageInfo' = FileInfo(t.url[2])
    /\ pending' = pending \ {t}
    /\ applied' = Append(applied, t.id)
    /\ generation' = generation + 1
    /\ UNCHANGED <<cropperVars, issued>>

\* handleImageUpdate (lines 44-66), called by the crop editor's Apply
\* (ImageCropper.tsx line 312) with a new data URL, and by handleReset
\* (lines 68-71) with imageInfo.originalUrl
HandleImageUpdate ==
    /\ Len(issued) < MaxRequests
    /\ imageInfo.loaded
    /\ \E source \in {"crop", "reset"} :
          LET newUrl == IF source = "crop" THEN <<"crop", NextId>> ELSE imageInfo.originalUrl
          IN  /\ pending' = pending \cup {Task(NextId, "update", "decode", newUrl, imageInfo)}
              /\ Request("update", newUrl)
    /\ UNCHANGED <<cropperVars, imageInfo, applied, generation>>

\* img.onload of handleImageUpdate (lines 48-49): fetch(newUrl)
UpdateImageOnLoad(t) ==
    /\ t.kind = "update" /\ t.stage = "decode"
    /\ pending' = (pending \ {t}) \cup {[t EXCEPT !.stage = "fetch"]}
    /\ UNCHANGED <<cropperVars, imageInfo, issued, applied, generation>>

\* the blob of the fetch (lines 50-62): setImageInfo with the new url and
\* the name and originalUrl of the captured imageInfo
UpdateFetched(t) ==
    /\ t.kind = "update" /\ t.stage = "fetch"
    /\ imageInfo' = [loaded |-> TRUE, url |-> t.url, originalUrl |-> t.info.originalUrl, name |-> t.info.name]
    /\ pending' = pending \ {t}
    /\ applied' = Append(applied, t.id)
    /\ UNCHANGED <<cropperVars, issued, generation>>

\* resizeImage (ImageSizeInfo.tsx lines 68-78): img.src = imageInfo.url
ResizeImage ==
    /\ Len(issued) < MaxRequests
    /\ imageInfo.loaded
    /\ pending' = pending \cup {Task(NextId, "resize", "decode", <<"blob", NextId>>, imageInfo)}
    /\ Request("resize", <<"blob", NextId>>)
    /\ UNCHANGED <<cropperVars, imageInfo, applied, generation>>

\* the image of resizeImage has loaded (lines 76-108): draw, then toBlob;
\* ctxOk: canvas.getContext('2d') is not null (line 82)
ResizeImageOnLoad(t) ==
    /\ t.kind = "resize" /\ t.stage = "decode"
    /\ \E ctxOk \in BOOLEAN :
          pending' = IF ctxOk THEN (pending \ {t}) \cup {[t EXCEPT !.stage = "encode"]}
                     ELSE pending \ {t}
    /\ UNCHANGED <<cropperVars, imageInfo, issued, applied, generation>>

\* the blob of toBlob (lines 102-113): null, or a URL for it handed to the
\* onImageUpdate of the render of the request
ResizeEncoded(t) ==
    /\ t.kind = "resize" /\ t.stage = "encode"
    /\ \E blobOk \in BOOLEAN :
          pending' = IF blobOk
                     THEN (pending \ {t}) \cup {[t EXCEPT !.kind = "update", !.stage = "decode"]}
                     ELSE pending \ {t}
    /\ UNCHANGED <<cropperVars, imageInfo, issued, applied, generation>>

\* onClear of the preview (App.tsx line 158): setImageInfo(null)
Clear ==
    /\ imageInfo.loaded
    /\ imageInfo' = NoImage
    /\ generation' = generation + 1
    /\ UNCHANGED <<cropperVars, pending, issued, applied>>

\* one callback of one request
Callback(t) ==
    \/ ReaderOnLoad(t)
    \/ FileImageOnLoad(t)
    \/ UpdateImageOnLoad(t)
    \/ UpdateFetched(t)
    \/ ResizeImageOnLoad(t)
    \/ ResizeEncoded(t)

EventLoop == \E t \in pending : Callback(t)

\* App as mounted: no image, no crop editor open
AppInit ==
    /\ imageInfo = NoImage
    /\ pending = {}
    /\ issued = <<>>
    /\ applied = <<>>
    /\ generation = 0
    /\ geom = [w |-> 1000, h |-> 1000, nw |-> 2000, nh |-> 2000]
    /\ imageLoaded = FALSE
    /\ cropBox = Box(R(0), R(0), R(0), R(0))
    /\ isDragging = FALSE
    /\ dragStart = [x |-> R(0), y |-> R(0)]
    /\ currentRatioIndex = 0
    /\ showPreview = FALSE
    /\ previewUrl = NoCanvas
    /\ lockAspectRatio = TRUE
    /\ resizeHandle = NoHandle
    /\ customWidth = 16
    /\ customHeight = 9
    /\ customMode = "ratio"
    /\ pixelWidth = 1920
    /\ pixelHeight = 1080
    /\ committed = <<>>
    /\ closed = TRUE
    /\ steps = 0
    /\ lastOp = [op |-> "mount", init |-> FALSE]

AppNext ==
    \/ HandleImageLoad
    \/ HandleImageUpdate
    \/ ResizeImage
    \/ Clear
    \/ EventLoop

AppSpec == AppInit /\ [][AppNext]_vars

(***************************************************************************)
(* C36.  Last request wins: when two image updates (crop commits, resets   *)
(* or size-table resizes) are requested in order A then B on the same      *)
(* image and both have completed, in whatever order their callbacks ran,   *)
(* the image shown is the result of B.                                     *)
(***************************************************************************)
UpdateKinds == {"update", "resize"}

Applied(id) == \E i \in 1..Len(applied) : applied[i] = id

C36_LastRequestWins ==
    LET n == Len(issued)
    IN  (/\ n >= 2 /\ pending = {}
         /\ issued[n].kind \in UpdateKinds /\ issued[n - 1].kind \in UpdateKinds
         /\ issued[n].generation = generation /\ issued[n - 1].generation = generation
         /\ Applied(n) /\ Applied(n - 1)) =>
            (imageInfo.loaded /\ imageInfo.url = issued[n].url)

(***************************************************************************)
(* C37.  A pending image update never resurrects or overwrites a replaced  *)
(* image: when the image was cleared, or a new file was loaded, after the  *)
(* update was requested, the completion of the update leaves imageInfo     *)
(* unchanged.                                                              *)
(***************************************************************************)
C37_NoResurrection ==
    [][\A t \in pending :
          (t.generation # generation /\ UpdateFetched(t)) => imageInfo' = imageInfo]_vars

====
